---- MODULE Spec2Model ----
(***************************************************************************)
(* The streaming query client of SECAnalyzer (src/app/components).         *)
(*                                                                         *)
(* Text is modelled as a sequence of units.  A unit is a short piece of    *)
(* text that the model never splits further: a newline, the "data: "       *)
(* prefix, a brace, a JSON member, a run of characters inside a JSON       *)
(* string.  The response body is a sequence of byte units; every unit but  *)
(* the two bytes of a two-byte UTF-8 character decodes to itself.          *)
(*                                                                         *)
(* handleSubmit is an async function: the code between two awaits runs     *)
(* without interruption, so each action below is one such run.  The        *)
(* continuation of a promise that abort() has rejected is a microtask and  *)
(* runs before the next task (a UI event or a network event).              *)
(***************************************************************************)
EXTENDS Integers, Sequences, FiniteSets, TLC

\* Number of handleSubmit calls in a behaviour.
MaxCalls == 2
\* Number of newline-terminated lines in a response body.
MaxLines == 2

VARIABLES
    query,               \* useState('') : the text of the question box
    response,            \* useState('') : the Response Accumulator
    loading,             \* useState(false) : the Loading Flag
    abortControllerRef,  \* useRef(null) : 0, or the call that made the controller
    calls,               \* number of handleSubmit calls so far
    pc,                  \* pc[h] : where call h is suspended
    exit,                \* exit[h] : how call h left handleSubmit
    aborted,             \* aborted[h] : abort() has rejected the promise call h awaits
    body,                \* body[h] : the bytes of call h's response body
    pos,                 \* pos[h] : how many of them reader.read() has handed over
    buffer,              \* buffer[h] : the local variable buffer
    pending,             \* pending[h] : bytes the TextDecoder holds back
    locked,              \* locked[h] : call h's reader holds the stream's lock
    info,                \* useState(null) : <<>>, or <<the metadata>>
    res,                 \* fetchInfo's local res : <<>>, or <<the response>>
    infoPc,              \* where fetchInfo is suspended
    infoFetches          \* number of requests to /api/info so far

\* the state of the metadata fetch
infoVars == <<info, res, infoPc, infoFetches>>

vars == <<query, response, loading, abortControllerRef, calls, pc, exit,
          aborted, body, pos, buffer, pending, locked, info, res, infoPc,
          infoFetches>>

Calls == 1..MaxCalls

----------------------------------------------------------------------------
(* Text units *)

NL == "\n"
CR == "\r"
SP == " "
Whitespace == {SP, CR, NL}

DataPrefix == "data: "
Sentinel == "[DONE]"
LBrace == "{"
RBrace == "}"
Comma == ","
Quote == "\""
ContentKey == "\"content\":\""
DoneTrue == "\"done\":true"
DoneFalse == "\"done\":false"
ContentReven == "\"content\":\"Reven\""
ContentUe == "\"content\":\"ue: $10B\""
ErrorRateLimited == "\"error\":\"rate limited\""
ErrorOverloaded == "\"error\":\"overloaded\""
ErrorEmpty == "\"error\":\"\""

\* The two bytes of U+00E9, the character they decode to, and U+FFFD.
LeadByte == "0xC3"
ContByte == "0xA9"
EAcute == "e-acute"
Replacement == "U+FFFD"

ErrorNotice == "\n\nError: "
FailureNotice == "Sorry, there was an error processing your request. Please try again."

----------------------------------------------------------------------------
(* String functions *)

RECURSIVE TrimStart(_)
TrimStart(s) ==
    IF s # <<>> /\ Head(s) \in Whitespace THEN TrimStart(Tail(s)) ELSE s

RECURSIVE TrimEnd(_)
TrimEnd(s) ==
    IF s # <<>> /\ s[Len(s)] \in Whitespace
    THEN TrimEnd(SubSeq(s, 1, Len(s) - 1))
    ELSE s

TrimKeepsWhitespace(s) == s

\* String.prototype.trim
Trim(s) == TrimEnd(TrimStart(s))

RECURSIVE split(_, _, _)
split(s, cur, out) ==
    IF s = <<>> THEN Append(out, cur)
    ELSE IF Head(s) = NL THEN split(Tail(s), <<>>, Append(out, cur))
    ELSE split(Tail(s), Append(cur, Head(s)), out)

\* buffer.split('\n') : the pieces between the newlines, one more than newlines
Split(s) == split(s, <<>>, <<>>)

RECURSIVE decode(_, _, _)
decode(carry, bytes, out) ==
    IF bytes = <<>> THEN [text |-> out, carry |-> carry]
    ELSE LET b == Head(bytes) IN
         IF carry # <<>>
         THEN IF b = ContByte
              THEN decode(<<>>, Tail(bytes), Append(out, EAcute))
              ELSE decode(<<>>, bytes, Append(out, Replacement))
         ELSE IF b = LeadByte THEN decode(<<b>>, Tail(bytes), out)
         ELSE IF b = ContByte THEN decode(<<>>, Tail(bytes), Append(out, Replacement))
         ELSE decode(<<>>, Tail(bytes), Append(out, b))

\* decoder.decode(value) without the stream option, as SECAnalyzer.jsx calls
\* it: an incomplete character at the end of the chunk becomes U+FFFD and
\* nothing is held back.
DecodeFlush(carry, value) ==
    LET d == decode(<<>>, value, <<>>) IN
    [text |-> IF d.carry = <<>> THEN d.text ELSE Append(d.text, Replacement),
     carry |-> <<>>]

\* decoder.decode(value, { stream: true })
Decode(carry, value) == decode(carry, value, <<>>)

----------------------------------------------------------------------------
(* JSON.parse, for the payloads the stream carries: an object whose members *)
(* are "done":true, "done":false, "content":"..." or "error":"...".  A      *)
(* string member is one unit, or the unit "content":" followed by the units *)
(* of the string and a closing quote.  Anything else is a SyntaxError,      *)
(* which ok = FALSE stands for.  An absent member and an empty string are   *)
(* both falsy and both read as <<>>.                                        *)

SyntaxError == [ok |-> FALSE, done |-> FALSE, error |-> <<>>, content |-> <<>>]
EmptyObject == [ok |-> TRUE, done |-> FALSE, error |-> <<>>, content |-> <<>>]

RECURSIVE CloseQuote(_, _)
\* index of the first Quote of t at or after i, or 0
CloseQuote(t, i) ==
    IF i > Len(t) THEN 0
    ELSE IF t[i] = Quote THEN i
    ELSE CloseQuote(t, i + 1)

RECURSIVE parseMembers(_, _, _)
parseMembers(t, i, d) ==
    LET after(k, d2) ==
            IF k > Len(t) THEN SyntaxError
            ELSE IF t[k] = RBrace THEN (IF k = Len(t) THEN d2 ELSE SyntaxError)
            ELSE IF t[k] = Comma THEN parseMembers(t, k + 1, d2)
            ELSE SyntaxError
        j == CloseQuote(t, i + 1)
    IN  IF i > Len(t) THEN SyntaxError
        ELSE CASE t[i] = DoneTrue   -> after(i + 1, [d EXCEPT !.done = TRUE])
               [] t[i] = DoneFalse  -> after(i + 1, [d EXCEPT !.done = FALSE])
               [] t[i] = ContentReven ->
                    after(i + 1, [d EXCEPT !.content = <<"Reven">>])
               [] t[i] = ContentUe ->
                    after(i + 1, [d EXCEPT !.content = <<"ue: $10B">>])
               [] t[i] = ErrorRateLimited ->
                    after(i + 1, [d EXCEPT !.error = <<"rate limited">>])
               [] t[i] = ErrorOverloaded ->
                    after(i + 1, [d EXCEPT !.error = <<"overloaded">>])
               [] t[i] = ErrorEmpty -> after(i + 1, [d EXCEPT !.error = <<>>])
               [] t[i] = ContentKey ->
                    IF j = 0 THEN SyntaxError
                    ELSE after(j + 1, [d EXCEPT !.content = SubSeq(t, i + 1, j - 1)])
               [] OTHER             -> SyntaxError

JSONParse(s) ==
    LET t == Trim(s) IN
    IF Len(t) < 2 \/ t[1] # LBrace THEN SyntaxError
    ELSE IF t[2] = RBrace THEN (IF Len(t) = 2 THEN EmptyObject ELSE SyntaxError)
    ELSE parseMembers(t, 2, EmptyObject)

----------------------------------------------------------------------------
(* The body of the for loop over the complete lines of a chunk.  ret says   *)
(* how the line leaves the loop body: "next" (go on with the next line),    *)
(* "sentinel", "done" or "error" (return from handleSubmit).                *)

StartsWithData(line) == line # <<>> /\ Head(line) = DataPrefix

AppendContentSeparated(prev, content) == prev \o <<NL>> \o content

\* setResponse(prev => prev + data.content)
AppendContent(prev, content) == prev \o content

AppendErrorReplacing(prev, error) == <<ErrorNotice>> \o error

\* setResponse(prev => prev + `\n\nError: ${data.error}`)
AppendError(prev, error) == prev \o <<ErrorNotice>> \o error

CatchParseErrorReturns(resp) == [response |-> resp, ret |-> "done"]

\* catch (parseError) { console.error(...) }
CatchParseError(resp) == [response |-> resp, ret |-> "next"]

\* line.startsWith('event:') || line.startsWith('id:') || line.startsWith('retry:')
StartsWithMeta(line) ==
    line # <<>> /\ Head(line) \in {"event: message", "id: 7", "retry: 3000"}

SkipLineEnds(line, resp) ==
    IF Trim(line) = <<>> \/ StartsWithMeta(line)
    THEN [response |-> resp, ret |-> "next"]
    ELSE [response |-> resp, ret |-> "done"]

\* The branches for a line without the data prefix: continue for a blank line,
\* continue for SSE metadata, console.log for anything else.
SkipLine(line, resp) ==
    IF Trim(line) = <<>> THEN [response |-> resp, ret |-> "next"]
    ELSE IF StartsWithMeta(line) THEN [response |-> resp, ret |-> "next"]
    ELSE [response |-> resp, ret |-> "next"]

HandleLineContentFirst(line, resp) ==
    IF StartsWithData(line)
    THEN LET dataStr == Trim(Tail(line)) IN
         IF dataStr = <<Sentinel>>
         THEN [response |-> resp, ret |-> "sentinel"]
         ELSE LET data == JSONParse(dataStr)
                  acc == IF data.content # <<>>
                         THEN AppendContent(resp, data.content)
                         ELSE resp
              IN
              IF ~data.ok THEN CatchParseError(resp)
              ELSE IF data.done THEN [response |-> acc, ret |-> "done"]
              ELSE IF data.error # <<>>
                   THEN [response |-> AppendError(acc, data.error), ret |-> "error"]
              ELSE [response |-> acc, ret |-> "next"]
    ELSE SkipLine(line, resp)

HandleLine(line, resp) ==
    IF StartsWithData(line)
    THEN LET dataStr == Trim(Tail(line)) IN
         IF dataStr = <<Sentinel>>
         THEN [response |-> resp, ret |-> "sentinel"]
         ELSE LET data == JSONParse(dataStr) IN
              IF ~data.ok THEN CatchParseError(resp)
              ELSE IF data.done THEN [response |-> resp, ret |-> "done"]
              ELSE IF data.error # <<>>
                   THEN [response |-> AppendError(resp, data.error), ret |-> "error"]
              ELSE IF data.content # <<>>
                   THEN [response |-> AppendContent(resp, data.content), ret |-> "next"]
              ELSE [response |-> resp, ret |-> "next"]
    ELSE SkipLine(line, resp)

RECURSIVE ForLinesToEnd(_, _, _, _)
ForLinesToEnd(lines, i, resp, ret) ==
    IF i > Len(lines) THEN [response |-> resp, ret |-> ret]
    ELSE LET r == HandleLine(lines[i], resp) IN
         ForLinesToEnd(lines, i + 1, r.response,
                       IF ret = "next" THEN r.ret ELSE ret)

ForLinesNoReturn(lines, i, resp) == ForLinesToEnd(lines, i, resp, "next")

RECURSIVE ForLines(_, _, _)
\* for (const line of lines) { ... } with its early returns
ForLines(lines, i, resp) ==
    IF i > Len(lines) THEN [response |-> resp, ret |-> "next"]
    ELSE LET r == HandleLine(lines[i], resp) IN
         IF r.ret # "next" THEN r
         ELSE ForLines(lines, i + 1, r.response)

CarryDropped(lines) == <<>>

\* buffer = lines.pop() || ''
Carry(lines) == lines[Len(lines)]

CompleteKeepsLast(lines) == lines

\* the lines left after lines.pop()
Complete(lines) == SubSeq(lines, 1, Len(lines) - 1)

----------------------------------------------------------------------------
(* Response bodies the query endpoint may send: at most MaxLines content    *)
(* records, then an ending.                                                 *)

LineReven == <<DataPrefix, LBrace, ContentReven, RBrace>>
LineUe == <<DataPrefix, LBrace, ContentUe, RBrace>>
LineAccent == <<DataPrefix, LBrace, ContentKey, LeadByte, ContByte, Quote, RBrace>>
LineMalformed == <<DataPrefix, LBrace, ContentReven>>
LineErrorEmpty == <<DataPrefix, LBrace, ErrorEmpty, RBrace>>
LineBlank == <<CR>>
LineEvent == <<"event: message">>
LineId == <<"id: 7">>
LineRetry == <<"retry: 3000">>
LineOther == <<": keep-alive">>

LineDone == <<DataPrefix, LBrace, DoneTrue, RBrace>>
LineSentinel == <<DataPrefix, Sentinel, CR>>
LineError == <<DataPrefix, LBrace, ErrorRateLimited, RBrace>>
LineDoneContent == <<DataPrefix, LBrace, DoneTrue, Comma, ContentReven, RBrace>>
LineErrorContent ==
    <<DataPrefix, LBrace, ErrorOverloaded, Comma, ContentReven, RBrace>>
LineDoneError ==
    <<DataPrefix, LBrace, DoneTrue, Comma, ErrorRateLimited, RBrace>>

ContentLines == {LineReven, LineUe}
OtherLines ==
    {LineAccent, LineMalformed, LineErrorEmpty, LineBlank, LineEvent, LineId,
     LineRetry, LineOther}
EndLines ==
    {LineDone, LineSentinel, LineError, LineDoneContent, LineErrorContent,
     LineDoneError}

Ended(line) == Append(line, NL)

RECURSIVE Join(_)
Join(ls) == IF ls = <<>> THEN <<>> ELSE Ended(Head(ls)) \o Join(Tail(ls))

\* How a body goes on after its first content records: it stops, it stops in
\* the middle of a record, or it brings one of the other records and then
\* stops or brings one more content record.
Endings ==
    {<<>>, LineDone, LineUe, LineError}
    \cup {Ended(l) :
            l \in {LineDone, LineDoneContent, LineErrorContent, LineDoneError}}
    \cup {Ended(l) \o Ended(LineUe) :
            l \in OtherLines \cup {LineDone, LineSentinel, LineError}}

Bodies ==
    {Join(ls) \o e :
        ls \in UNION {[1..n -> ContentLines] : n \in 0..MaxLines}, e \in Endings}

Queries == {<<>>, <<SP, NL>>, <<SP, "What was Apple's revenue in Q1 2024?", SP>>}

----------------------------------------------------------------------------
(* State *)

\* The component is mounted: the effect has called fetchInfo, which has issued
\* its request.
Init ==
    /\ query = <<>>
    /\ response = <<>>
    /\ loading = FALSE
    /\ abortControllerRef = 0
    /\ calls = 0
    /\ pc = [h \in Calls |-> "idle"]
    /\ exit = [h \in Calls |-> "none"]
    /\ aborted = [h \in Calls |-> FALSE]
    /\ body = [h \in Calls |-> <<>>]
    /\ pos = [h \in Calls |-> 0]
    /\ buffer = [h \in Calls |-> <<>>]
    /\ pending = [h \in Calls |-> <<>>]
    /\ locked = [h \in Calls |-> FALSE]
    /\ info = <<>>
    /\ res = <<>>
    /\ infoPc = "fetch"
    /\ infoFetches = 1

\* A promise that abort() rejected has a continuation waiting to run.
MicrotaskPending == \E h \in Calls : pc[h] \in {"fetch", "read"} /\ aborted[h]

AbortNothing(c) == aborted

\* if (abortControllerRef.current) abortControllerRef.current.abort()
\* abort() rejects the promise the call of that controller is suspended on; a
\* call that has left handleSubmit has none.
Abort(c) ==
    IF c = 0 \/ pc[c] = "done" THEN aborted ELSE [aborted EXCEPT ![c] = TRUE]

\* The question box is filled with q (setQuery) and the form is submitted:
\* handleSubmit up to its first await, which is the guard, the two resets, the
\* abort of the stored controller, the new controller and the call of fetch.
Submit(q) ==
    /\ ~MicrotaskPending
    /\ calls < MaxCalls
    /\ query' = q
    /\ LET h == calls + 1 IN
       /\ calls' = h
       /\ IF Trim(q) = <<>>
          THEN /\ pc' = [pc EXCEPT ![h] = "done"]
               /\ exit' = [exit EXCEPT ![h] = "blank"]
               /\ UNCHANGED <<response, loading, abortControllerRef, aborted>>
          ELSE /\ loading' = TRUE
               /\ response' = <<>>
               /\ aborted' = Abort(abortControllerRef)
               /\ abortControllerRef' = h
               /\ pc' = [pc EXCEPT ![h] = "fetch"]
               /\ exit' = [g \in Calls |-> "none"]
    /\ UNCHANGED <<body, pos, buffer, pending, locked>>
    /\ UNCHANGED infoVars

CatchAlways(name, resp) == <<FailureNotice>>

\* catch (error) { if (error.name !== 'AbortError') setResponse('Sorry, ...') }
Catch(name, resp) == IF name # "AbortError" THEN <<FailureNotice>> ELSE resp

ReleaseLockSkipped(h) == locked

\* finally { reader.releaseLock() }, which a call that has a reader runs on
\* its way out
ReleaseLock(h) == IF pc[h] = "read" THEN [locked EXCEPT ![h] = FALSE] ELSE locked

\* handleSubmit ends: its locals and the response it read from are gone.
Leave(h, how) ==
    /\ pc' = [pc EXCEPT ![h] = "done"]
    /\ exit' = [exit EXCEPT ![h] = how]
    /\ body' = [body EXCEPT ![h] = <<>>]
    /\ pos' = [pos EXCEPT ![h] = 0]
    /\ buffer' = [buffer EXCEPT ![h] = <<>>]
    /\ pending' = [pending EXCEPT ![h] = <<>>]
    /\ locked' = ReleaseLock(h)

ThrowNoFinally(h, name, how) ==
    /\ pc[h] = "fetch"
    /\ response' = Catch(name, response)
    /\ Leave(h, how)
    /\ UNCHANGED <<query, loading, abortControllerRef, calls, aborted>>
    /\ UNCHANGED infoVars

\* An error thrown before the reader exists: the outer catch, then the outer
\* finally.
Throw(h, name, how) ==
    /\ pc[h] = "fetch"
    /\ response' = Catch(name, response)
    /\ loading' = FALSE
    /\ Leave(h, how)
    /\ UNCHANGED <<query, abortControllerRef, calls, aborted>>
    /\ UNCHANGED infoVars

\* await fetch(...) rejects: no network, DNS failure, CORS
FetchRejects(h) ==
    /\ ~MicrotaskPending
    /\ ~aborted[h]
    /\ Throw(h, "TypeError", "failure")

\* if (!response.ok) throw new Error(`HTTP error! status: ...`)
FetchNotOk(h) ==
    /\ ~MicrotaskPending
    /\ ~aborted[h]
    /\ Throw(h, "Error", "failure")

\* if (!response.body) throw new Error('ReadableStream not supported')
FetchNoBody(h) ==
    /\ ~MicrotaskPending
    /\ ~aborted[h]
    /\ Throw(h, "Error", "failure")

\* fetch resolves with a 2xx response that has a body: getReader(), a new
\* TextDecoder, buffer = '', and the first reader.read()
FetchOk(h, b) ==
    /\ ~MicrotaskPending
    /\ pc[h] = "fetch"
    /\ ~aborted[h]
    /\ body' = [body EXCEPT ![h] = b]
    /\ pos' = [pos EXCEPT ![h] = 0]
    /\ pc' = [pc EXCEPT ![h] = "read"]
    /\ locked' = [locked EXCEPT ![h] = TRUE]
    /\ buffer' = [buffer EXCEPT ![h] = <<>>]
    /\ pending' = [pending EXCEPT ![h] = <<>>]
    /\ UNCHANGED <<query, response, loading, abortControllerRef, calls, exit,
                   aborted>>
    /\ UNCHANGED infoVars

\* reader.read() resolves with the next k bytes: decode, split, keep the last
\* piece, run the for loop.  A return inside the loop runs both finally blocks.
ReadChunk(h) ==
    /\ ~MicrotaskPending
    /\ pc[h] = "read"
    /\ ~aborted[h]
    /\ \E k \in 1..(Len(body[h]) - pos[h]) :
       LET value == SubSeq(body[h], pos[h] + 1, pos[h] + k)
           d == Decode(pending[h], value)
           lines == Split(buffer[h] \o d.text)
           r == ForLines(Complete(lines), 1, response)
       IN  /\ response' = r.response
           /\ IF r.ret = "next"
              THEN /\ pos' = [pos EXCEPT ![h] = pos[h] + k]
                   /\ buffer' = [buffer EXCEPT ![h] = Carry(lines)]
                   /\ pending' = [pending EXCEPT ![h] = d.carry]
                   /\ UNCHANGED <<loading, pc, exit, locked, body>>
              ELSE /\ loading' = FALSE
                   /\ Leave(h, r.ret)
    /\ UNCHANGED <<query, abortControllerRef, calls, aborted>>
    /\ UNCHANGED infoVars

ReadDoneStillLoading(h) ==
    /\ ~MicrotaskPending
    /\ pc[h] = "read"
    /\ ~aborted[h]
    /\ pos[h] = Len(body[h])
    /\ Leave(h, "eof")
    /\ UNCHANGED <<query, response, loading, abortControllerRef, calls, aborted>>
    /\ UNCHANGED infoVars

\* reader.read() resolves with done: break, releaseLock(), the outer finally
ReadDone(h) ==
    /\ ~MicrotaskPending
    /\ pc[h] = "read"
    /\ ~aborted[h]
    /\ pos[h] = Len(body[h])
    /\ loading' = FALSE
    /\ Leave(h, "eof")
    /\ UNCHANGED <<query, response, abortControllerRef, calls, aborted>>
    /\ UNCHANGED infoVars

\* reader.read() rejects because the connection broke: releaseLock(), the
\* outer catch, the outer finally
ReadRejects(h) ==
    /\ ~MicrotaskPending
    /\ pc[h] = "read"
    /\ ~aborted[h]
    /\ response' = Catch("TypeError", response)
    /\ loading' = FALSE
    /\ Leave(h, "failure")
    /\ UNCHANGED <<query, abortControllerRef, calls, aborted>>
    /\ UNCHANGED infoVars

\* The promise that abort() rejected with AbortError is picked up: fetch or
\* reader.read() throws, releaseLock() if the reader exists, the outer catch,
\* the outer finally.
Aborted(h) ==
    /\ pc[h] \in {"fetch", "read"}
    /\ aborted[h]
    /\ response' = Catch("AbortError", response)
    /\ loading' = FALSE
    /\ Leave(h, "abort")
    /\ aborted' = [aborted EXCEPT ![h] = FALSE]
    /\ UNCHANGED <<query, abortControllerRef, calls>>
    /\ UNCHANGED infoVars

Next ==
    \/ \E q \in Queries : Submit(q)
    \/ \E h \in Calls : FetchRejects(h)
    \/ \E h \in Calls : FetchNotOk(h)
    \/ \E h \in Calls : FetchNoBody(h)
    \/ \E h \in Calls, b \in Bodies : FetchOk(h, b)
    \/ \E h \in Calls : ReadChunk(h)
    \/ \E h \in Calls : ReadDone(h)
    \/ \E h \in Calls : ReadRejects(h)
    \/ \E h \in Calls : Aborted(h)

Spec == Init /\ [][Next]_vars

----------------------------------------------------------------------------
(* fetchInfo, the metadata fetch that the mount effect starts.  It shares no *)
(* state with handleSubmit; Spec leaves its request pending, and SpecInfo    *)
(* runs it to its end next to the first query.                               *)

handleVars == <<query, response, loading, abortControllerRef, calls, pc, exit,
                aborted, body, pos, buffer, pending, locked>>

\* Bodies that /api/info or a proxy in front of it may send.
InfoText == "{\"supported_companies\":[\"AAPL\",\"JPM\"],\"filing_types\":[\"10-K\"],\"time_period\":\"2024\"}"
DetailText == "{\"detail\":\"Not Found\"}"
HtmlText == "<html>502 Bad Gateway</html>"

ApiInfoValue ==
    [supported_companies |-> <<"AAPL", "JPM">>, filing_types |-> <<"10-K">>,
     time_period |-> "2024"]
DetailValue == [detail |-> "Not Found"]

\* res.json() : <<the value>>, or <<>> when the body is not JSON
ResJson(text) ==
    CASE text = InfoText   -> <<ApiInfoValue>>
      [] text = DetailText -> <<DetailValue>>
      [] OTHER             -> <<>>

InfoResponses ==
    {[ok |-> TRUE, text |-> InfoText], [ok |-> FALSE, text |-> DetailText],
     [ok |-> FALSE, text |-> HtmlText], [ok |-> TRUE, text |-> HtmlText]}

\* {info && ( ... info.supported_companies.map(...) ...
\*             info.filing_types.join(', ') ... info.time_period )} :
\* nothing without info, the card from the metadata, and a TypeError from
\* .map or .join of undefined for any other value
CompanyInfoCard(i) ==
    IF i = <<>> THEN "absent"
    ELSE IF {"supported_companies", "filing_types"} \subseteq DOMAIN i[1]
         THEN "card"
    ELSE "TypeError"

InfoCatchRethrows ==
    /\ infoPc' = "unhandled"
    /\ res' = <<>>
    /\ UNCHANGED <<info, infoFetches>>

\* catch (error) { console.error('Failed to fetch API info:', error) }
InfoCatch ==
    /\ infoPc' = "done"
    /\ res' = <<>>
    /\ UNCHANGED <<info, infoFetches>>

\* await fetch(.../api/info) rejects
InfoFetchRejects ==
    /\ infoPc = "fetch"
    /\ InfoCatch
    /\ UNCHANGED handleVars

\* await fetch(.../api/info) resolves, with any status
InfoFetchResolves(r) ==
    /\ infoPc = "fetch"
    /\ res' = <<r>>
    /\ infoPc' = "json"
    /\ UNCHANGED <<info, infoFetches>>
    /\ UNCHANGED handleVars

\* await res.json() resolves: setInfo(data)
InfoJsonResolves ==
    /\ infoPc = "json"
    /\ ResJson(res[1].text) # <<>>
    /\ info' = ResJson(res[1].text)
    /\ infoPc' = "done"
    /\ res' = <<>>
    /\ UNCHANGED infoFetches
    /\ UNCHANGED handleVars

\* await res.json() rejects: the body is not JSON, or the connection breaks
\* while the body is read
InfoJsonRejects ==
    /\ infoPc = "json"
    /\ InfoCatch
    /\ UNCHANGED handleVars

\* the first call of handleSubmit
FirstSubmit(q) == calls = 0 /\ Submit(q)

NextInfo ==
    \/ InfoFetchRejects
    \/ \E r \in InfoResponses : InfoFetchResolves(r)
    \/ InfoJsonResolves
    \/ InfoJsonRejects
    \/ \E q \in Queries : FirstSubmit(q)
    \/ \E h \in Calls, b \in Bodies : FetchOk(h, b)
    \/ \E h \in Calls : ReadChunk(h)
    \/ \E h \in Calls : ReadDone(h)

SpecInfo == Init /\ [][NextInfo]_vars

----------------------------------------------------------------------------
(* handleSubmit of the JavaScript component (SECAnalyzer.jsx).  It has no    *)
(* AbortController, no carry-over buffer, no [DONE] test, no error branch    *)
(* and no finally; its break leaves the for loop only.                       *)

\* The body of the for loop: ret is "next", or "break" after setLoading(false).
JsHandleLine(line, resp) ==
    IF StartsWithData(line)
    THEN LET data == JSONParse(Tail(line)) IN
         IF ~data.ok THEN [response |-> resp, ret |-> "next"]
         ELSE IF data.done THEN [response |-> resp, ret |-> "break"]
         ELSE IF data.content # <<>>
              THEN [response |-> AppendContent(resp, data.content), ret |-> "next"]
         ELSE [response |-> resp, ret |-> "next"]
    ELSE [response |-> resp, ret |-> "next"]

RECURSIVE JsForLines(_, _, _)
\* for (const line of lines) { ... }
JsForLines(lines, i, resp) ==
    IF i > Len(lines) THEN [response |-> resp, ret |-> "next"]
    ELSE LET r == JsHandleLine(lines[i], resp) IN
         IF r.ret # "next" THEN r
         ELSE JsForLines(lines, i + 1, r.response)

\* Response bodies for the JavaScript component: content records, then
\* nothing or a done record with a content record after it.
JsEndings == {<<>>, Ended(LineDone) \o Ended(LineUe)}

JsBodies ==
    {Join(ls) \o e :
        ls \in UNION {[1..n -> ContentLines] : n \in 0..MaxLines}, e \in JsEndings}

\* handleSubmit ends; the reader is never released.
JsLeave(h, how) ==
    /\ pc' = [pc EXCEPT ![h] = "done"]
    /\ exit' = [exit EXCEPT ![h] = how]
    /\ body' = [body EXCEPT ![h] = <<>>]
    /\ pos' = [pos EXCEPT ![h] = 0]
    /\ UNCHANGED locked

\* handleSubmit up to its await of fetch: the guard, the two resets, fetch
JsSubmit(q) ==
    /\ calls < MaxCalls
    /\ query' = q
    /\ LET h == calls + 1 IN
       /\ calls' = h
       /\ IF Trim(q) = <<>>
          THEN /\ pc' = [pc EXCEPT ![h] = "done"]
               /\ exit' = [exit EXCEPT ![h] = "blank"]
               /\ UNCHANGED <<response, loading>>
          ELSE /\ loading' = TRUE
               /\ response' = <<>>
               /\ pc' = [pc EXCEPT ![h] = "fetch"]
               /\ exit' = [g \in Calls |->
                             IF exit[g] = "blank" THEN "blank" ELSE "none"]
    /\ UNCHANGED <<abortControllerRef, aborted, body, pos, buffer, pending,
                   locked>>
    /\ UNCHANGED infoVars

\* catch (error) { setResponse('Sorry, ...'); setLoading(false) }
JsCatch(h) ==
    /\ response' = <<FailureNotice>>
    /\ loading' = FALSE
    /\ JsLeave(h, "failure")
    /\ UNCHANGED <<query, abortControllerRef, calls, aborted, buffer, pending>>
    /\ UNCHANGED infoVars

\* await fetch(...) rejects
JsFetchRejects(h) == pc[h] = "fetch" /\ JsCatch(h)

\* if (!response.ok) throw new Error(...)
JsFetchNotOk(h) == pc[h] = "fetch" /\ JsCatch(h)

\* fetch resolves with a 2xx response: getReader(), a new TextDecoder, and the
\* first reader.read()
JsFetchOk(h, b) ==
    /\ pc[h] = "fetch"
    /\ body' = [body EXCEPT ![h] = b]
    /\ pos' = [pos EXCEPT ![h] = 0]
    /\ pc' = [pc EXCEPT ![h] = "read"]
    /\ locked' = [locked EXCEPT ![h] = TRUE]
    /\ UNCHANGED <<query, response, loading, abortControllerRef, calls, exit,
                   aborted, buffer, pending>>
    /\ UNCHANGED infoVars

\* reader.read() resolves with the next k bytes: decode, split, run the for
\* loop over every piece, then read again
JsReadChunk(h) ==
    /\ pc[h] = "read"
    /\ \E k \in 1..(Len(body[h]) - pos[h]) :
       LET value == SubSeq(body[h], pos[h] + 1, pos[h] + k)
           chunk == DecodeFlush(<<>>, value).text
           r == JsForLines(Split(chunk), 1, response)
       IN  /\ response' = r.response
           /\ loading' = (IF r.ret = "break" THEN FALSE ELSE loading)
           /\ pos' = [pos EXCEPT ![h] = pos[h] + k]
    /\ UNCHANGED <<query, abortControllerRef, calls, pc, exit, aborted, body,
                   buffer, pending, locked>>
    /\ UNCHANGED infoVars

\* reader.read() resolves with done: break, and handleSubmit ends
JsReadDone(h) ==
    /\ pc[h] = "read"
    /\ pos[h] = Len(body[h])
    /\ JsLeave(h, "eof")
    /\ UNCHANGED <<query, response, loading, abortControllerRef, calls, aborted,
                   buffer, pending>>
    /\ UNCHANGED infoVars

\* reader.read() rejects
JsReadRejects(h) == pc[h] = "read" /\ JsCatch(h)

NextJs ==
    \/ \E q \in Queries : JsSubmit(q)
    \/ \E h \in Calls : JsFetchRejects(h)
    \/ \E h \in Calls : JsFetchNotOk(h)
    \/ \E h \in Calls, b \in JsBodies : JsFetchOk(h, b)
    \/ \E h \in Calls : JsReadChunk(h)
    \/ \E h \in Calls : JsReadDone(h)
    \/ \E h \in Calls : JsReadRejects(h)

SpecJs == Init /\ [][NextJs]_vars

----------------------------------------------------------------------------
(* The mocked component of SECAnalyzer.tsx: no request is made, the metadata
   and the answer are canned, and handleSubmit reveals the answer by a timer.
   It uses query, response, loading, info, calls, pc and exit; body[h] holds
   the canned answer of call h and pos[h] its loop index i. *)

MaxTyped == 2

mockVars == <<query, response, loading, info, calls, pc, exit, body, pos>>
mockUnused == <<abortControllerRef, aborted, buffer, pending, locked, res,
                infoPc, infoFetches>>

MockInfoValue ==
    [supported_companies |->
        <<"AAPL", "MSFT", "GOOGL", "AMZN", "TSLA", "META", "NVDA", "JPM",
          "JNJ", "V", "WMT", "PG", "HD", "UNH", "DIS", "MA", "CRM",
          "NFLX", "ADBE", "PYPL">>,
     filing_types |-> <<"10-K", "10-Q", "8-K", "DEF 14A">>, time_period |-> "2020-2024"]

\* the template literal before ${query}
MockHead == <<"##", SP, "Analysis", SP, "of", SP>>

\* the template literal after ${query}
MockTail ==
    <<NL, NL, SP, SP, SP, SP, SP, SP, "Based", SP, "on", SP, "the", SP,
      "SEC", SP, "filings", SP, "analysis:", NL, NL, SP, SP, SP, SP, SP, SP,
      "**Key", SP, "Findings:**", NL, SP, SP, SP, SP, SP, SP, "-", SP,
      "Revenue", SP, "growth", SP, "has", SP, "been", SP, "**strong**", SP,
      "over", SP, "the", SP, "recent", SP, "quarters", NL, SP, SP, SP, SP,
      SP, SP, "-", SP, "Operating", SP, "margins", SP, "have", SP,
      "*improved*", SP, "significantly", NL, SP, SP, SP, SP, SP, SP, "-",
      SP, "Cash", SP, "flow", SP, "remains", SP, "robust", NL, NL, SP, SP,
      SP, SP, SP, SP, "**Financial", SP, "Highlights:**", NL, SP, SP, SP,
      SP, SP, SP, "-", SP, "Q3", SP, "2024", SP, "revenue:", SP, "$45.2B",
      SP, "(+12%", SP, "YoY)", NL, SP, SP, SP, SP, SP, SP, "-", SP, "Net",
      SP, "income:", SP, "$8.7B", SP, "(+15%", SP, "YoY)", NL, SP, SP, SP,
      SP, SP, SP, "-", SP, "Operating", SP, "cash", SP, "flow:", SP,
      "$12.1B", NL, NL, SP, SP, SP, SP, SP, SP, "This", SP, "analysis", SP,
      "is", SP, "based", SP, "on", SP, "the", SP, "latest", SP, "SEC", SP,
      "10-Q", SP, "and", SP, "10-K", SP, "filings.">>

\* const mockResponse = `## Analysis of ${query} ...`
MockResponse(q) == MockHead \o q \o MockTail

\* the places around the words of s: before s, each space, after s
Cuts(s) == {0, Len(s) + 1} \cup {i \in 1..Len(s) : s[i] = SP}

\* the k-th place of Cuts(s), counted from 0
Cut(s, k) == CHOOSE c \in Cuts(s) : Cardinality({d \in Cuts(s) : d < c}) = k

\* mockResponse.split(' ') : the pieces between the spaces, one more than
\* spaces
SplitWords(s) ==
    [k \in 1..(Cardinality(Cuts(s)) - 1) |->
        SubSeq(s, Cut(s, k - 1) + 1, Cut(s, k) - 1)]

RECURSIVE JoinWords(_)
\* words.join(' ')
JoinWords(ws) ==
    IF ws = <<>> THEN <<>>
    ELSE IF Len(ws) = 1 THEN ws[1]
    ELSE ws[1] \o <<SP>> \o JoinWords(Tail(ws))

\* words.slice(0, i + 1).join(' ')
MockPrefix(ws, i) == JoinWords(SubSeq(ws, 1, i + 1))

exampleQueries ==
    {<<"What", SP, "are", SP, "JPMorgan's", SP, "key", SP, "financial", SP,
       "highlights?">>,
     <<"Tell", SP, "me", SP, "about", SP, "Meta's", SP, "recent", SP,
       "quarterly", SP, "results">>,
     <<"Compare", SP, "Apple's", SP, "revenue", SP, "growth", SP, "over",
       SP, "the", SP, "last", SP, "3", SP, "quarters">>,
     <<"What", SP, "are", SP, "Microsoft's", SP, "main", SP, "business", SP,
       "segments", SP, "and", SP, "their", SP, "performance?">>,
     <<"Show", SP, "me", SP, "Google's", SP, "recent", SP, "acquisitions",
       SP, "and", SP, "strategic", SP, "investments">>}

\* what the textarea can hold after an edit
TypedUnits == {SP, NL, "Apple", "revenue"}
TypedQueries == UNION {[1..n -> TypedUnits] : n \in 0..MaxTyped}

\* useEffect(() => { setInfo({...}) }, [])
MockMount ==
    /\ info = <<>>
    /\ info' = <<MockInfoValue>>
    /\ UNCHANGED <<query, response, loading, calls, pc, exit, body, pos>>
    /\ UNCHANGED mockUnused

\* textarea onChange={(e) => setQuery(e.target.value)}, disabled={loading}
MockChange(q) ==
    /\ ~loading
    /\ q # query
    /\ query' = q
    /\ UNCHANGED <<response, loading, info, calls, pc, exit, body, pos>>
    /\ UNCHANGED mockUnused

\* handleExampleClick(example) : setQuery(example)
MockExampleClick(example) ==
    /\ example # query
    /\ query' = example
    /\ UNCHANGED <<response, loading, info, calls, pc, exit, body, pos>>
    /\ UNCHANGED mockUnused

\* The loop from index i, where seen is the value of loading in the render
\* whose handleSubmit is running: the loop is over, or it breaks, or it waits
\* for the timer.
MockLoop(ws, i, seen) ==
    IF ~(i < Len(ws)) THEN "finished"
    ELSE IF ~seen THEN "break"
    ELSE "timer"

\* handleSubmit from Enter in the textarea or from the button, both disabled
\* while loading, up to its first await or to its end: the guard, the two
\* resets, the loop's first test and, when the loop is left, setLoading(false).
\* The updates of one event are batched, so the last setLoading decides.
MockSubmit ==
    /\ ~loading
    /\ calls < MaxCalls
    /\ LET h == calls + 1
           mockResponse == MockResponse(query)
           words == SplitWords(mockResponse)
           at == MockLoop(words, 0, loading)
       IN
       /\ calls' = h
       /\ IF Trim(query) = <<>>
          THEN /\ pc' = [pc EXCEPT ![h] = "done"]
               /\ exit' = [exit EXCEPT ![h] = "blank"]
               /\ UNCHANGED <<response, loading, body, pos>>
          ELSE /\ response' = <<>>
               /\ IF at = "timer"
                  THEN /\ loading' = TRUE
                       /\ pc' = [pc EXCEPT ![h] = "timer"]
                       /\ body' = [body EXCEPT ![h] = mockResponse]
                       /\ pos' = [pos EXCEPT ![h] = 0]
                       /\ UNCHANGED exit
                  ELSE /\ loading' = FALSE
                       /\ pc' = [pc EXCEPT ![h] = "done"]
                       /\ exit' = [exit EXCEPT ![h] = at]
                       /\ UNCHANGED <<body, pos>>
    /\ UNCHANGED <<query, info>>
    /\ UNCHANGED mockUnused

\* The timer of call h fires: setResponse of the next prefix, i++, and the
\* loop's next test, made with the same render's loading, which was true.
\* No mocked call ever waits for the timer (MockNeverWaits), so this step is
\* never enabled and NextMock does without it.
MockTimer(h) ==
    /\ pc[h] = "timer"
    /\ LET words == SplitWords(body[h])
           i == pos[h]
           at == MockLoop(words, i + 1, TRUE)
       IN
       /\ response' = MockPrefix(words, i)
       /\ IF at = "timer"
          THEN /\ pos' = [pos EXCEPT ![h] = i + 1]
               /\ UNCHANGED <<loading, pc, exit, body>>
          ELSE /\ loading' = FALSE
               /\ pc' = [pc EXCEPT ![h] = "done"]
               /\ exit' = [exit EXCEPT ![h] = at]
               /\ body' = [body EXCEPT ![h] = <<>>]
               /\ pos' = [pos EXCEPT ![h] = 0]
    /\ UNCHANGED <<query, info, calls>>
    /\ UNCHANGED mockUnused

NextMock ==
    \/ MockMount
    \/ \E q \in TypedQueries : MockChange(q)
    \/ \E example \in exampleQueries : MockExampleClick(example)
    \/ MockSubmit

SpecMock == Init /\ [][NextMock]_vars

----------------------------------------------------------------------------
(* What the claims speak of *)

Live(h) == pc[h] \in {"fetch", "read"}

\* call h is the latest request and nothing has cancelled it
Current(h) == h = abortControllerRef /\ ~aborted[h]

\* call h leaves handleSubmit in this step
Leaves(h) == Live(h) /\ pc'[h] = "done"

IsBlank(q) == \A i \in 1..Len(q) : q[i] \in Whitespace

IsPrefix(s, t) == Len(s) <= Len(t) /\ s = SubSeq(t, 1, Len(s))

RECURSIVE records(_, _, _)
records(b, cur, out) ==
    IF b = <<>> THEN out
    ELSE IF Head(b) = NL THEN records(Tail(b), <<>>, Append(out, cur))
    ELSE records(Tail(b), Append(cur, Head(b)), out)

\* the newline-terminated records of a body
Records(b) == records(b, <<>>, <<>>)

\* What each record of the wire format stands for (spec, section 6).
ContentOf(l) ==
    CASE l = LineReven  -> <<"Reven">>
      [] l = LineUe     -> <<"ue: $10B">>
      [] l = LineAccent -> <<EAcute>>
      [] OTHER          -> <<>>
MessageOf(l) ==
    CASE l = LineErrorEmpty   -> <<>>
      [] l = LineErrorContent -> <<"overloaded">>
      [] OTHER                -> <<"rate limited">>
\* records with done true, and records with an error message and no done true
DoneRecords == {LineDone, LineDoneContent, LineDoneError}
ErrorRecords == {LineError, LineErrorContent}
\* records that carry an error field and no done true
CarriesError == {LineError, LineErrorContent, LineErrorEmpty}

RECURSIVE ExpectWith(_, _, _, _)
\* the accumulator and the way out that a sequence of records calls for, when
\* the records of errors count as error payloads and those of dones as done
ExpectWith(ls, acc, errors, dones) ==
    IF ls = <<>> THEN [response |-> acc, exit |-> "eof"]
    ELSE LET l == Head(ls) IN
         IF l \in errors
         THEN [response |-> acc \o <<ErrorNotice>> \o MessageOf(l),
               exit |-> "error"]
         ELSE IF l \in dones THEN [response |-> acc, exit |-> "done"]
         ELSE IF l = LineSentinel THEN [response |-> acc, exit |-> "sentinel"]
         ELSE ExpectWith(Tail(ls), acc \o ContentOf(l), errors, dones)

Expect(ls) == ExpectWith(ls, <<>>, ErrorRecords, DoneRecords)
Expected(b) == Expect(Records(b))

\* the chunk loop run on bytes handed over in one piece
Whole(bytes) ==
    LET d == Decode(<<>>, bytes)
        lines == Split(d.text)
    IN  [run |-> ForLines(Complete(lines), 1, <<>>),
         buffer |-> Carry(lines), pending |-> d.carry]

\* call h, the latest request, takes a step of its read loop that is not a
\* transport failure
Reads(h) ==
    Current(h) /\ pc[h] = "read" /\ calls' = calls /\ exit'[h] # "failure"

\* the bytes that call h has been handed when the step is over; a call that
\* leaves has seen its body as far as it will ever look
Seen(h) == IF pc'[h] = "read" THEN SubSeq(body[h], 1, pos'[h]) ELSE body[h]

RECURSIVE Contents(_)
Contents(ls) ==
    IF ls = <<>> THEN <<>> ELSE ContentOf(Head(ls)) \o Contents(Tail(ls))

Range(f) == {f[i] : i \in DOMAIN f}

----------------------------------------------------------------------------
\* C1: when a second query is submitted before the first one's stream has
\* finished, the accumulator that the second call leaves behind is what its own
\* stream calls for (its content, its error notice or the failure notice), and
\* it then stays as it is until the next request: nothing of the first stream
\* shows in it.
LastSubmitWins ==
    [][\A h \in Calls :
          /\ (Current(h) /\ Leaves(h) /\ exit'[h] # "failure")
                => response' = Expected(body[h]).response
          /\ (Current(h) /\ Leaves(h) /\ exit'[h] = "failure")
                => response' = <<FailureNotice>>
          /\ (h = abortControllerRef /\ pc[h] = "done" /\ response' # response)
                => abortControllerRef' # abortControllerRef]_vars

LastSubmitWinsWitness ==
    /\ calls = 2
    /\ exit[1] = "abort"
    /\ exit[2] = "done"
    /\ response = <<"Reven", "ue: $10B">>

\* C2: no step of a call whose request was cancelled changes the accumulator
\* or the loading flag.
SupersededIsSilent ==
    [][\A h \in Calls :
          (aborted[h] /\ Leaves(h))
             => (response' = response /\ loading' = loading)]_vars

\* C3: after every read the accumulator, the carry-over buffer and the bytes
\* the decoder holds back are what one read of all the bytes received so far
\* gives, and a call leaves as that one read would, so the division into
\* chunks shows nowhere.
ChunkingIsTransparent ==
    [][\A h \in Calls :
          Reads(h) =>
             LET w == Whole(Seen(h)) IN
             /\ response' = w.run.response
             /\ IF pc'[h] = "read"
                THEN /\ w.run.ret = "next"
                     /\ buffer'[h] = w.buffer
                     /\ pending'[h] = w.pending
                     /\ loading' = loading
                ELSE /\ exit'[h] = (IF w.run.ret = "next" THEN "eof" ELSE w.run.ret)
                     /\ ~loading']_vars

ChunkingIsTransparentWitness ==
    \E h \in Calls :
       /\ pc[h] = "read"
       /\ response = <<"Reven">>
       /\ buffer[h] = <<DataPrefix, LBrace, ContentKey>>
       /\ pending[h] = <<LeadByte>>

\* C4: while a stream of content records followed by a done record is read,
\* the accumulator only grows and is a prefix of c1 ++ ... ++ cn; the call
\* leaves at the done record with the accumulator equal to c1 ++ ... ++ cn and
\* the loading flag false.
ContentThenDone(b) ==
    LET r == Records(b) IN
    /\ b # <<>> /\ b[Len(b)] = NL
    /\ r[Len(r)] = LineDone
    /\ \A i \in 1..(Len(r) - 1) : r[i] \in ContentLines

InOrderVerbatim ==
    [][\A h \in Calls :
          (Reads(h) /\ ContentThenDone(body[h])) =>
             LET all == Contents(Records(body[h])) IN
             /\ IsPrefix(response, response')
             /\ IsPrefix(response', all)
             /\ response' = Contents(Records(Seen(h)))
             /\ pc'[h] = "done"
                  => (response' = all /\ ~loading' /\ exit'[h] = "done")]_vars

InOrderVerbatimWitness ==
    /\ calls = 1
    /\ exit[1] = "done"
    /\ response = <<"Reven", "ue: $10B">>
    /\ ~loading

\* C5: a call that meets a done payload or the [DONE] sentinel leaves in that
\* very step with the loading flag false and with the accumulator holding what
\* came before the marker and nothing that follows it; a call that goes on
\* reading has met no marker; and once the call has left, the accumulator
\* changes only when a new request is issued.
TerminalMarkerEnds ==
    [][\A h \in Calls :
          /\ (Reads(h) /\ Expected(Seen(h)).exit \in {"done", "sentinel"})
                => /\ pc'[h] = "done"
                   /\ exit'[h] = Expected(Seen(h)).exit
                   /\ response' = Expected(Seen(h)).response
                   /\ ~loading'
          /\ (Reads(h) /\ exit'[h] \in {"done", "sentinel"})
                => Expected(body[h]).exit = exit'[h]
          /\ (h = abortControllerRef /\ exit[h] \in {"done", "sentinel"}
                /\ abortControllerRef' = abortControllerRef)
                => (response' = response /\ pc'[h] = "done")]_vars

TerminalMarkerEndsWitness ==
    /\ calls = 1
    /\ exit[1] = "sentinel"
    /\ response = <<"ue: $10B">>
    /\ ~loading

\* C6: a payload that carries an error field (and is no done payload, which
\* ends the stream before the error is looked at) makes the call leave in that
\* step, with the notice and the message appended to the content accumulated
\* so far and the loading flag false, so that no later line is processed.
ErrorFieldEnds ==
    [][\A h \in Calls :
          LET e == ExpectWith(Records(Seen(h)), <<>>, CarriesError, DoneRecords)
          IN  (Reads(h) /\ e.exit = "error")
                 => /\ pc'[h] = "done"
                    /\ exit'[h] = "error"
                    /\ response' = e.response
                    /\ ~loading']_vars

\* What the code does hold to: a payload whose error field is a non-empty
\* string and whose done field is not true makes the call leave in that step,
\* with the notice and the message appended to the content accumulated so far
\* and the loading flag false; the accumulator then changes only when a new
\* request is issued.
ErrorPayloadEnds ==
    [][\A h \in Calls :
          /\ (Reads(h) /\ Expected(Seen(h)).exit = "error")
                => /\ pc'[h] = "done"
                   /\ exit'[h] = "error"
                   /\ response' = Expected(Seen(h)).response
                   /\ IsPrefix(response, response')
                   /\ SubSeq(response', Len(response') - 1, Len(response'))
                         \in {<<ErrorNotice, "rate limited">>,
                               <<ErrorNotice, "overloaded">>}
                   /\ ~loading'
          /\ (Reads(h) /\ exit'[h] = "error") => Expected(body[h]).exit = "error"
          /\ (h = abortControllerRef /\ exit[h] = "error"
                /\ abortControllerRef' = abortControllerRef)
                => (response' = response /\ pc'[h] = "done")]_vars

ErrorPayloadEndsWitness ==
    /\ calls = 1
    /\ exit[1] = "error"
    /\ response = <<"Reven", ErrorNotice, "rate limited">>
    /\ ~loading

\* C7: a call that leaves because the transport reports the end of the stream
\* has met no terminal record, leaves the loading flag false, and leaves the
\* accumulator equal to the concatenation of the content records of its body.
EndOfStreamClears ==
    [][\A h \in Calls :
          (Reads(h) /\ exit'[h] = "eof")
             => /\ pos[h] = Len(body[h])
                /\ Range(Records(body[h]))
                      \cap (DoneRecords \cup ErrorRecords \cup {LineSentinel}) = {}
                /\ response' = Contents(Records(body[h]))
                /\ ~loading']_vars

EndOfStreamClearsWitness ==
    /\ calls = 1
    /\ exit[1] = "eof"
    /\ response = <<"Reven", "ue: $10B">>
    /\ ~loading

\* C8: a call that leaves on a failure that is no cancellation (fetch
\* rejected, status not 2xx, no body, read rejected) leaves the failure notice
\* in the accumulator and the loading flag false; a call that leaves on
\* AbortError leaves the accumulator as it was.
FailureNoticeUnlessAborted ==
    [][\A h \in Calls :
          /\ (Leaves(h) /\ ~aborted[h]
                /\ exit'[h] \notin {"done", "sentinel", "error", "eof"})
                => (response' = <<FailureNotice>> /\ ~loading')
          /\ (Leaves(h) /\ aborted[h]) => response' = response]_vars

FailureNoticeUnlessAbortedWitness ==
    /\ calls = 2
    /\ exit[1] = "abort"
    /\ exit[2] = "failure"
    /\ response = <<FailureNotice>>
    /\ ~loading

\* C9: a stream with a malformed record is read as the same stream without
\* it: after every read the accumulator is what the other records call for,
\* the loading flag is untouched while the call reads on, and the call leaves
\* where the other records make it leave.
Without(ls, l) == SelectSeq(ls, LAMBDA x : x # l)

MalformedIsSkipped ==
    [][\A h \in Calls :
          (Reads(h) /\ LineMalformed \in Range(Records(Seen(h))))
             => LET e == Expect(Without(Records(Seen(h)), LineMalformed)) IN
                /\ response' = e.response
                /\ IF pc'[h] = "read"
                   THEN e.exit = "eof" /\ loading' = loading
                   ELSE exit'[h] = e.exit]_vars

MalformedIsSkippedWitness ==
    \E h \in Calls :
       /\ pc[h] = "read"
       /\ body[h] = Ended(LineReven) \o Ended(LineMalformed) \o Ended(LineUe)
       /\ pos[h] = Len(body[h])
       /\ response = <<"Reven", "ue: $10B">>
       /\ loading

\* C10: a submit with an empty or whitespace-only query changes neither the
\* loading flag nor the accumulator, issues no request, and neither cancels
\* nor replaces the stored controller or any call in flight.
BlankSubmitIsNoOp ==
    [][(calls' = calls + 1 /\ IsBlank(query'))
          => /\ UNCHANGED <<response, loading, abortControllerRef, aborted,
                            body, pos, buffer, pending, locked>>
             /\ \A h \in Calls :
                   /\ Live(h) => pc'[h] = pc[h]
                   /\ pc'[h] = "fetch" => pc[h] = "fetch"]_vars

BlankSubmitIsNoOpWitness ==
    /\ calls = 2
    /\ exit[2] = "blank"
    /\ query = <<SP, NL>>
    /\ pc[1] = "read"
    /\ response = <<"Reven">>
    /\ loading

\* C11: whenever no call of handleSubmit is still running the loading flag is
\* false, however the calls ended, so the submit button (disabled while
\* loading or while the query is blank) is enabled for any non-blank query.
Disabled(q) == loading \/ Trim(q) = <<>>

IdleIsNotLoading ==
    (\A h \in Calls : ~Live(h))
       => (~loading /\ \A q \in Queries : ~IsBlank(q) => ~Disabled(q))

IdleIsNotLoadingWitness ==
    /\ calls = 2
    /\ exit[1] = "abort"
    /\ exit[2] = "failure"
    /\ pc[1] = "done" /\ pc[2] = "done"
    /\ response = <<FailureNotice>>
    /\ ~Disabled(query)

\* C12: every change of the accumulator other than the reset to empty that
\* submit performs appends text to its previous value.
OnlyGrows ==
    [][response' # response
          => \/ (calls' = calls + 1 /\ response' = <<>>)
             \/ IsPrefix(response, response')]_vars

\* C12, amended: every change of the accumulator other than the reset to empty
\* that submit performs and the replacement by the failure notice when a call
\* fails at transport level without having been cancelled appends text to its
\* previous value.
GrowsUnlessFailure ==
    [][response' # response
          => \/ (calls' = calls + 1 /\ response' = <<>>)
             \/ IsPrefix(response, response')
             \/ \E h \in Calls :
                   /\ Leaves(h) /\ ~aborted[h] /\ exit'[h] = "failure"
                   /\ response' = <<FailureNotice>>]_vars

GrowsUnlessFailureWitness ==
    /\ calls = 1
    /\ exit[1] = "error"
    /\ response = <<"Reven", "ue: $10B", ErrorNotice, "rate limited">>

\* C13: at most one request is live (issued, not finished and not aborted) in
\* every state, and it is the one of the stored controller: a submit aborts
\* the request of the stored controller before it stores a new one.
LiveHandles == {h \in Calls : Live(h) /\ ~aborted[h]}

OneLiveHandle ==
    /\ Cardinality(LiveHandles) <= 1
    /\ LiveHandles \subseteq {abortControllerRef}

OneLiveHandleWitness ==
    /\ calls = 2
    /\ pc[1] = "read"
    /\ aborted[1]
    /\ pc[2] = "fetch"
    /\ abortControllerRef = 2

\* C14: a call holds the lock of its reader exactly while it is in the read
\* loop: the step that leaves the loop, whichever way, releases it, and no
\* call that has ended holds a lock.
ReaderReleased ==
    \A h \in Calls :
       /\ locked[h] <=> pc[h] = "read"
       /\ pc[h] = "done" => ~locked[h]

ReaderReleasedWitness ==
    /\ calls = 2
    /\ exit[1] = "abort"
    /\ exit[2] = "error"
    /\ response = <<ErrorNotice, "rate limited">>
    /\ ~locked[1] /\ ~locked[2]

\* C15: a stream with complete lines that lack the data prefix (blank,
\* event:, id:, retry:, anything else) is read as the same stream without
\* them: after every read the accumulator is what the other records call for,
\* the loading flag is untouched while the call reads on, and the call leaves
\* only where the other records make it leave.
NonDataLines == {LineBlank, LineEvent, LineId, LineRetry, LineOther}

WithoutAll(ls, skipped) == SelectSeq(ls, LAMBDA x : x \notin skipped)

NonDataIgnored ==
    [][\A h \in Calls :
          (Reads(h) /\ Range(Records(Seen(h))) \cap NonDataLines # {})
             => LET e == Expect(WithoutAll(Records(Seen(h)), NonDataLines)) IN
                /\ response' = e.response
                /\ IF pc'[h] = "read"
                   THEN e.exit = "eof" /\ loading' = loading
                   ELSE exit'[h] = e.exit]_vars

NonDataIgnoredWitness ==
    \E h \in Calls :
       /\ pc[h] = "read"
       /\ body[h] = Ended(LineReven) \o Ended(LineOther) \o Ended(LineUe)
       /\ pos[h] = Len(body[h])
       /\ response = <<"Reven", "ue: $10B">>
       /\ loading

\* C16: no step of fetchInfo touches the loading flag or the accumulator,
\* none ends with an exception that was not caught, none issues a second
\* request, and a fetch that rejects or a body that is not JSON leaves the
\* metadata unset.
MetadataFetchIsContained ==
    [][infoVars' # infoVars
          => /\ UNCHANGED <<loading, response>>
             /\ infoPc' # "unhandled"
             /\ infoFetches = 1 /\ infoFetches' = 1
             /\ info' # info => (infoPc = "json" /\ ResJson(res[1].text) # <<>>)
             /\ (\/ infoPc = "fetch" /\ infoPc' = "done"
                 \/ infoPc = "json" /\ ResJson(res[1].text) = <<>>)
                   => (info' = <<>> /\ infoPc' = "done")]_vars

MetadataFetchIsContainedWitness ==
    /\ infoPc = "done"
    /\ info = <<>>
    /\ infoFetches = 1
    /\ loading
    /\ response = <<"Reven">>

\* a call of the JavaScript component after which a non-blank query was
\* submitted
Superseded(h) == \E g \in Calls : g > h /\ g <= calls /\ exit[g] # "blank"

\* the for loop run on bytes handed over in one piece
JsWhole(bytes) == JsForLines(Split(DecodeFlush(<<>>, bytes).text), 1, <<>>)

\* C17: in the JavaScript component no read of a call that a later non-blank
\* submit has superseded changes the accumulator.
JsLastSubmitWins ==
    [][\A h \in Calls :
          (Superseded(h) /\ pc[h] = "read" /\ pos'[h] > pos[h])
             => response' = response]_vars

\* C18: in the JavaScript component a call that leaves at the end of the
\* stream without having met a done payload leaves the loading flag false.
JsEndOfStreamClears ==
    [][\A h \in Calls :
          (calls = 1 /\ pc[h] = "read" /\ exit'[h] = "eof"
             /\ JsWhole(body[h]).ret # "break")
             => ~loading']_vars

\* C19: in the JavaScript component the accumulator at the end of a stream is
\* the one that a single read of the whole stream gives, however the stream
\* was divided into chunks.
JsChunkingIsTransparent ==
    [][\A h \in Calls :
          (calls = 1 /\ pc[h] = "read" /\ exit'[h] = "eof"
             /\ JsWhole(body[h]).ret # "break")
             => response' = JsWhole(body[h]).response]_vars

\* C20: in the JavaScript component, once a done payload has been processed
\* (which is when the loading flag is false while the call still reads), no
\* later read appends to the accumulator.
JsDoneStops ==
    [][\A h \in Calls :
          (calls = 1 /\ pc[h] = "read" /\ ~loading /\ pos'[h] > pos[h])
             => response' = response]_vars

\* the piece of a body after its last newline
Unterminated(b) == Carry(Split(b))

\* C23: a call whose body ends in a record without a newline leaves as the
\* newline-terminated records alone make it leave, with their accumulator and
\* the loading flag false; at the end of the stream the unterminated record
\* is still in the carry-over buffer and the accumulator is left as it was.
UnterminatedTailDropped ==
    [][\A h \in Calls :
          (Reads(h) /\ Unterminated(body[h]) # <<>> /\ pc'[h] = "done")
             => /\ exit'[h] = Expected(body[h]).exit
                /\ response' = Expected(body[h]).response
                /\ ~loading'
                /\ exit'[h] = "eof"
                      => /\ buffer[h] = Unterminated(body[h])
                         /\ response' = response]_vars

UnterminatedTailDroppedWitness ==
    \E h \in Calls :
       /\ pc[h] = "read"
       /\ body[h] = Ended(LineReven) \o LineDone
       /\ pos[h] = Len(body[h])
       /\ buffer[h] = LineDone
       /\ response = <<"Reven">>
       /\ loading

\* records whose payload has more than one field
SeveralFields == {LineDoneContent, LineErrorContent, LineDoneError}

\* the first place of ls that holds a record of several fields
FirstOfSeveral(ls) ==
    CHOOSE k \in 1..Len(ls) :
       ls[k] \in SeveralFields /\ \A j \in 1..(k - 1) : ls[j] \notin SeveralFields

\* C24: the read that meets a payload of several fields after content records
\* acts on done first, then on error, and never on the content beside them:
\* with done true the call leaves as done with the earlier content alone
\* (no notice, no content of the payload); with an error and content it leaves
\* as error with the earlier content and the notice alone.
DoneThenErrorThenContent ==
    [][\A h \in Calls :
          (Reads(h) /\ Range(Records(Seen(h))) \cap SeveralFields # {})
             => LET ls == Records(Seen(h))
                    k == FirstOfSeveral(ls)
                    earlier == Contents(SubSeq(ls, 1, k - 1))
                IN  /\ pc'[h] = "done"
                    /\ ~loading'
                    /\ ls[k] \in {LineDoneContent, LineDoneError}
                          => (exit'[h] = "done" /\ response' = earlier)
                    /\ ls[k] = LineErrorContent
                          => /\ exit'[h] = "error"
                             /\ response' = earlier \o <<ErrorNotice, "overloaded">>]_vars

DoneThenErrorThenContentWitness ==
    /\ calls = 1
    /\ exit[1] = "error"
    /\ response = <<"ue: $10B", ErrorNotice, "overloaded">>
    /\ ~loading

\* C22: a metadata response with an HTTP error status, whatever its body,
\* leaves info unset, and the company card is then absent from the display.
MetadataOnlyFromSuccess ==
    [][(infoPc = "json" /\ ~res[1].ok)
          => (info' = <<>> /\ CompanyInfoCard(info') = "absent")]_vars

\* no call of the mocked handleSubmit ever waits for its timer
MockNeverWaits == \A h \in Calls : pc[h] # "timer"

\* C21: in the mocked component, a call of handleSubmit with a non-blank query
\* ends with the whole canned answer in response and loading false.
MockRevealsAnswer ==
    [][\A h \in Calls :
          (pc[h] # "done" /\ pc'[h] = "done" /\ exit'[h] # "blank")
             => (response' = MockResponse(query) /\ ~loading')]_vars

====
